---- MODULE Spec2Model ----
(***************************************************************************)
(* Model of the Kubernetes manifest materializer of iac-gke:               *)
(* resourcesFromSpecs, createSpecResource and specResourceName of          *)
(* src/lib/k8s.ts, with the call main makes in src/index.ts.               *)
(*                                                                         *)
(* JavaScript strings that the code lower-cases, joins or compares are     *)
(* sequences of one-character strings, so that toLowerCase and join are    *)
(* modelled by what they do.  The JavaScript value undefined, where a      *)
(* string is expected, is the one-element sequence Undefined, whose        *)
(* element is no character.                                                *)
(***************************************************************************)
EXTENDS Integers, Sequences, FiniteSets, TLC

\* ------------------------------------------------------------------ bounds

\* longest args.specs of one call
MaxSpecs == 3
\* calls of resourcesFromSpecs that reuse one args.options value
MaxCalls == 2
\* longest args.specs of a call after the first
MaxReuseSpecs == 2
\* most pieces a role string is put together from
MaxRoleParts == 4

\* ----------------------------------------------------------------- strings

Undefined == <<"undefined">>

\* JavaScript truthiness of a string-or-undefined value
Truthy(s) == s # Undefined /\ s # <<>>

UpperCaseLetters ==
    <<"A", "B", "C", "D", "E", "F", "G", "H", "I", "J", "K", "L", "M",
      "N", "O", "P", "Q", "R", "S", "T", "U", "V", "W", "X", "Y", "Z">>

LowerCaseLetters ==
    <<"a", "b", "c", "d", "e", "f", "g", "h", "i", "j", "k", "l", "m",
      "n", "o", "p", "q", "r", "s", "t", "u", "v", "w", "x", "y", "z">>

ToLowerChar(c) ==
    IF \E i \in 1..Len(UpperCaseLetters) : UpperCaseLetters[i] = c
    THEN LowerCaseLetters[CHOOSE i \in 1..Len(UpperCaseLetters) : UpperCaseLetters[i] = c]
    ELSE c

\* String.prototype.toLowerCase
toLowerCase(s) == [i \in 1..Len(s) |-> ToLowerChar(s[i])]

\* Array.prototype.join(sep) on an array of strings
RECURSIVE join(_, _)
join(parts, sep) ==
    IF Len(parts) = 0 THEN <<>>
    ELSE IF Len(parts) = 1 THEN parts[1]
    ELSE parts[1] \o sep \o join(Tail(parts), sep)

\* ------------------------------------------------------------ simpleRoleName

S_roles_slash ==
    <<"r", "o", "l", "e", "s", "/">>

\* the string begins with the prefix
StartsWith(s, prefix) ==
    Len(s) >= Len(prefix) /\ SubSeq(s, 1, Len(prefix)) = prefix

\* .replace(/^roles\//, "")
ReplaceLeadingRoles(s) ==
    IF StartsWith(s, S_roles_slash)
    THEN SubSeq(s, Len(S_roles_slash) + 1, Len(s))
    ELSE s

\* mutant: the pattern is not global, only the first "." is replaced
ReplaceDots_FirstOnly(s) ==
    [k \in 1..Len(s) |->
        IF s[k] = "." /\ (\A j \in 1..(k - 1) : s[j] # ".") THEN "-" ELSE s[k]]

\* .replace(/\./g, "-")
ReplaceDots(s) == [k \in 1..Len(s) |-> IF s[k] = "." THEN "-" ELSE s[k]]

simpleRoleName(r) == toLowerCase(ReplaceDots(ReplaceLeadingRoles(r)))

\* the kind tags createSpecResource compares spec.kind with
K_ConfigMap ==
    <<"C", "o", "n", "f", "i", "g", "M", "a", "p">>
K_Namespace ==
    <<"N", "a", "m", "e", "s", "p", "a", "c", "e">>
K_Secret ==
    <<"S", "e", "c", "r", "e", "t">>
K_Service ==
    <<"S", "e", "r", "v", "i", "c", "e">>
K_ServiceAccount ==
    <<"S", "e", "r", "v", "i", "c", "e", "A", "c", "c", "o", "u", "n", "t">>
K_DaemonSet ==
    <<"D", "a", "e", "m", "o", "n", "S", "e", "t">>
K_Deployment ==
    <<"D", "e", "p", "l", "o", "y", "m", "e", "n", "t">>
K_StatefulSet ==
    <<"S", "t", "a", "t", "e", "f", "u", "l", "S", "e", "t">>
K_Job ==
    <<"J", "o", "b">>
K_CronJob ==
    <<"C", "r", "o", "n", "J", "o", "b">>
K_PodDisruptionBudget ==
    <<"P", "o", "d", "D", "i", "s", "r", "u", "p", "t", "i", "o", "n", "B", "u", "d", "g", "e", "t">>
K_PodSecurityPolicy ==
    <<"P", "o", "d", "S", "e", "c", "u", "r", "i", "t", "y", "P", "o", "l", "i", "c", "y">>
K_NetworkPolicy ==
    <<"N", "e", "t", "w", "o", "r", "k", "P", "o", "l", "i", "c", "y">>
K_Ingress ==
    <<"I", "n", "g", "r", "e", "s", "s">>
K_ClusterRole ==
    <<"C", "l", "u", "s", "t", "e", "r", "R", "o", "l", "e">>
K_ClusterRoleBinding ==
    <<"C", "l", "u", "s", "t", "e", "r", "R", "o", "l", "e", "B", "i", "n", "d", "i", "n", "g">>
K_Role ==
    <<"R", "o", "l", "e">>
K_RoleBinding ==
    <<"R", "o", "l", "e", "B", "i", "n", "d", "i", "n", "g">>
K_MutatingWebhookConfiguration ==
    <<"M", "u", "t", "a", "t", "i", "n", "g", "W", "e", "b", "h", "o", "o", "k", "C", "o", "n", "f", "i", "g", "u", "r", "a", "t", "i", "o", "n">>
K_ValidatingWebhookConfiguration ==
    <<"V", "a", "l", "i", "d", "a", "t", "i", "n", "g", "W", "e", "b", "h", "o", "o", "k", "C", "o", "n", "f", "i", "g", "u", "r", "a", "t", "i", "o", "n">>
K_CustomResourceDefinition ==
    <<"C", "u", "s", "t", "o", "m", "R", "e", "s", "o", "u", "r", "c", "e", "D", "e", "f", "i", "n", "i", "t", "i", "o", "n">>
K_Widget ==
    <<"W", "i", "d", "g", "e", "t">>
K_namespace_lc ==
    <<"n", "a", "m", "e", "s", "p", "a", "c", "e">>
K_NAMESPACE_uc ==
    <<"N", "A", "M", "E", "S", "P", "A", "C", "E">>
K_configmap_lc ==
    <<"c", "o", "n", "f", "i", "g", "m", "a", "p">>
AV_admission_v1beta1 ==
    <<"a", "d", "m", "i", "s", "s", "i", "o", "n", "r", "e", "g", "i", "s", "t", "r", "a", "t", "i", "o", "n", ".", "k", "8", "s", ".", "i", "o", "/", "v", "1", "b", "e", "t", "a", "1">>
AV_admission_v1 ==
    <<"a", "d", "m", "i", "s", "s", "i", "o", "n", "r", "e", "g", "i", "s", "t", "r", "a", "t", "i", "o", "n", ".", "k", "8", "s", ".", "i", "o", "/", "v", "1">>
AV_apiextensions_v1beta1 ==
    <<"a", "p", "i", "e", "x", "t", "e", "n", "s", "i", "o", "n", "s", ".", "k", "8", "s", ".", "i", "o", "/", "v", "1", "b", "e", "t", "a", "1">>
AV_apiextensions_v1 ==
    <<"a", "p", "i", "e", "x", "t", "e", "n", "s", "i", "o", "n", "s", ".", "k", "8", "s", ".", "i", "o", "/", "v", "1">>
AV_v1 ==
    <<"v", "1">>
AV_apps_v1 ==
    <<"a", "p", "p", "s", "/", "v", "1">>
S_k8s ==
    <<"k", "8", "s">>
S_namespace ==
    <<"n", "a", "m", "e", "s", "p", "a", "c", "e">>
S_ns1 ==
    <<"n", "s", "1">>
S_ns2 ==
    <<"n", "s", "2">>
S_web ==
    <<"w", "e", "b">>
S_crd ==
    <<"c", "r", "d">>
S_w ==
    <<"w">>

\* ------------------------------------------------------------------- specs

(***************************************************************************)
(* A spec (an element of args.specs, of type any) is a record: tag says    *)
(* whether the value is an object, null or undefined; metadata.tag says    *)
(* whether the object has a metadata block.  body stands for the rest of   *)
(* the document (annotations, the spec block), which only a transform      *)
(* touches.  kind, apiVersion, name and namespace are strings or absent,   *)
(* as in a decoded manifest.                                               *)
(***************************************************************************)
NoMetadata == [tag |-> "undefined", name |-> Undefined, namespace |-> Undefined]

Metadata(name, namespace) == [tag |-> "object", name |-> name, namespace |-> namespace]

SpecObject(kind, apiVersion, metadata) ==
    [tag |-> "object", kind |-> kind, apiVersion |-> apiVersion,
     metadata |-> metadata, body |-> "original"]

NullSpec ==
    [tag |-> "null", kind |-> Undefined, apiVersion |-> Undefined,
     metadata |-> NoMetadata, body |-> "original"]

UndefinedSpec ==
    [tag |-> "undefined", kind |-> Undefined, apiVersion |-> Undefined,
     metadata |-> NoMetadata, body |-> "original"]

\* s?.kind
OptKind(s) == IF s.tag = "object" THEN s.kind ELSE Undefined

\* s?.metadata?.name
OptName(s) ==
    IF s.tag = "object" /\ s.metadata.tag = "object" THEN s.metadata.name ELSE Undefined

\* s.metadata?.namespace
OptNamespace(s) ==
    IF s.tag = "object" /\ s.metadata.tag = "object" THEN s.metadata.namespace ELSE Undefined

\* --------------------------------------------------------- specResourceName

\* mutant: the guard tests spec.kind only
NoResourceName_KindOnly(spec) == ~Truthy(OptKind(spec))

\* specResourceName returns undefined: the guard of its first statement
NoResourceName(spec) == ~Truthy(OptKind(spec)) \/ ~Truthy(OptName(spec))

\* mutant: the namespace test compares spec.kind with "Namespace"
specResourceName_ExactKind(spec) ==
    IF NoResourceName(spec) THEN Undefined
    ELSE LET kind == toLowerCase(spec.kind)
             parts0 == <<S_k8s, kind>>
             parts1 == IF spec.kind # K_Namespace /\ Truthy(OptNamespace(spec))
                       THEN Append(parts0, spec.metadata.namespace)
                       ELSE parts0
             parts == Append(parts1, spec.metadata.name)
         IN  join(parts, <<"/">>)

\* mutant: the namespace is never pushed
specResourceName_NoNamespace(spec) ==
    IF NoResourceName(spec) THEN Undefined
    ELSE join(<<S_k8s, toLowerCase(spec.kind), spec.metadata.name>>, <<"/">>)

specResourceName(spec) ==
    IF NoResourceName(spec) THEN Undefined
    ELSE LET kind == toLowerCase(spec.kind)
             parts0 == <<S_k8s, kind>>
             parts1 == IF kind # S_namespace /\ Truthy(OptNamespace(spec))
                       THEN Append(parts0, spec.metadata.namespace)
                       ELSE parts0
             parts == Append(parts1, spec.metadata.name)
         IN  join(parts, <<"/">>)

\* ------------------------------------------------------ createSpecResource

\* mutant: a spec without apiVersion gets the v1beta1 revision too
Revision_BetaWhenMissing(spec, beta) ==
    IF spec.apiVersion = beta \/ spec.apiVersion = Undefined THEN "v1beta1" ELSE "v1"

\* spec.apiVersion === "<group>/v1beta1" ? the v1beta1 class : the v1 class
Revision(spec, beta) == IF spec.apiVersion = beta THEN "v1beta1" ELSE "v1"

\* the constructor createSpecResource calls for a spec that has a resource name
ResourceType(spec) ==
    IF spec.kind = K_ConfigMap THEN "core.v1.ConfigMap"
    ELSE IF spec.kind = K_Namespace THEN "core.v1.Namespace"
    ELSE IF spec.kind = K_Secret THEN "core.v1.Secret"
    ELSE IF spec.kind = K_Service THEN "core.v1.Service"
    ELSE IF spec.kind = K_ServiceAccount THEN "core.v1.ServiceAccount"
    ELSE IF spec.kind = K_DaemonSet THEN "apps.v1.DaemonSet"
    ELSE IF spec.kind = K_Deployment THEN "apps.v1.Deployment"
    ELSE IF spec.kind = K_StatefulSet THEN "apps.v1.StatefulSet"
    ELSE IF spec.kind = K_Job THEN "batch.v1.Job"
    ELSE IF spec.kind = K_CronJob THEN "batch.v1beta1.CronJob"
    ELSE IF spec.kind = K_PodDisruptionBudget THEN "policy.v1beta1.PodDisruptionBudget"
    ELSE IF spec.kind = K_PodSecurityPolicy THEN "policy.v1beta1.PodSecurityPolicy"
    ELSE IF spec.kind = K_NetworkPolicy THEN "networking.v1.NetworkPolicy"
    ELSE IF spec.kind = K_Ingress THEN "networking.v1beta1.Ingress"
    ELSE IF spec.kind = K_ClusterRole THEN "rbac.v1.ClusterRole"
    ELSE IF spec.kind = K_ClusterRoleBinding THEN "rbac.v1.ClusterRoleBinding"
    ELSE IF spec.kind = K_Role THEN "rbac.v1.Role"
    ELSE IF spec.kind = K_RoleBinding THEN "rbac.v1.RoleBinding"
    ELSE IF spec.kind = K_MutatingWebhookConfiguration
         THEN IF Revision(spec, AV_admission_v1beta1) = "v1beta1"
              THEN "admissionregistration.v1beta1.MutatingWebhookConfiguration"
              ELSE "admissionregistration.v1.MutatingWebhookConfiguration"
    ELSE IF spec.kind = K_ValidatingWebhookConfiguration
         THEN IF Revision(spec, AV_admission_v1beta1) = "v1beta1"
              THEN "admissionregistration.v1beta1.ValidatingWebhookConfiguration"
              ELSE "admissionregistration.v1.ValidatingWebhookConfiguration"
    ELSE IF spec.kind = K_CustomResourceDefinition
         THEN IF Revision(spec, AV_apiextensions_v1beta1) = "v1beta1"
              THEN "apiextensions.v1beta1.CustomResourceDefinition"
              ELSE "apiextensions.v1.CustomResourceDefinition"
    ELSE "apiextensions.CustomResource"

(***************************************************************************)
(* What createSpecResource(spec, opts) does: tag "undefined" when it       *)
(* returns undefined without constructing anything, else the one           *)
(* constructor call new <type>(name, args, opts) it makes.                 *)
(***************************************************************************)
NoResource ==
    [tag |-> "undefined", name |-> Undefined, type |-> "undefined",
     args |-> UndefinedSpec,
     opts |-> [provider |-> "undefined", hasDependsOn |-> FALSE,
               dependsOn |-> <<>>, customTimeouts |-> "undefined"]]

createSpecResource(spec, opts) ==
    LET resource == specResourceName(spec)
    IN  IF ~Truthy(resource) THEN NoResource
        ELSE [tag |-> "resource", name |-> resource, type |-> ResourceType(spec),
              args |-> spec, opts |-> opts]

\* ---------------------------------------------------------------- the call

\* names of the two resources main declares before the call and names in
\* options.dependsOn
N_k8sClusterAdminRole ==
    <<"a", "t", "o", "m", "i", "s", "t", "-", "a", "d", "m", "i", "n", "-", "c", "l", "u", "s", "t", "e", "r", "-", "r", "o", "l", "e", "-", "b", "i", "n", "d", "i", "n", "g">>
N_nginxIngressFirewall ==
    <<"f", "w", "-", "m", "a", "s", "t", "e", "r", "-", "t", "o", "-", "i", "n", "g", "r", "e", "s", "s", "-", "n", "g", "i", "n", "x">>

NoOptions ==
    [provider |-> "undefined", hasDependsOn |-> FALSE, dependsOn |-> <<>>,
     customTimeouts |-> "undefined"]

\* what the provisioning engine holds when main reaches the call: the
\* resources declared earlier.  A resource handle is the position of its
\* registration in the engine's list.
Preregistered ==
    << [tag |-> "resource", name |-> N_k8sClusterAdminRole,
        type |-> "rbac.v1.ClusterRoleBinding", args |-> UndefinedSpec,
        opts |-> [NoOptions EXCEPT !.provider = "k8sProvider"]],
       [tag |-> "resource", name |-> N_nginxIngressFirewall,
        type |-> "gcp.compute.Firewall", args |-> UndefinedSpec,
        opts |-> NoOptions] >>

\* the options main passes
MainOptions ==
    [provider |-> "k8sProvider", hasDependsOn |-> TRUE, dependsOn |-> <<1, 2>>,
     customTimeouts |-> "undefined"]

\* args.options of a call: main's, and one with no dependsOn and a timeout
OptionsPool ==
    { MainOptions,
      [provider |-> "k8sProvider", hasDependsOn |-> FALSE, dependsOn |-> <<>>,
       customTimeouts |-> "10m"] }

\* the dependencies an options value declares
DependsOn(o) == IF o.hasDependsOn THEN o.dependsOn ELSE <<>>

\* the documents args.specs is drawn from
SpecPool ==
    { SpecObject(K_Namespace, AV_v1, Metadata(S_ns1, Undefined)),
      SpecObject(K_CustomResourceDefinition, AV_apiextensions_v1beta1,
                 Metadata(S_crd, Undefined)),
      SpecObject(K_Deployment, AV_apps_v1, Metadata(S_web, S_ns1)),
      SpecObject(K_Deployment, AV_apps_v1, Metadata(Undefined, Undefined)),
      SpecObject(K_Deployment, AV_apps_v1, Metadata(<<>>, S_ns1)),
      SpecObject(K_Namespace, AV_v1, NoMetadata),
      NullSpec }

SpecSeqs == UNION { [1..n -> SpecPool] : n \in 0..MaxSpecs }

\* args.specs of a later call that reuses the options of an earlier one
ReuseSeqs == UNION { [1..n -> SpecPool] : n \in 0..MaxReuseSpecs }

(***************************************************************************)
(* args.transform is any function of one spec.  The calls modelled pass    *)
(* no transform, or one of: omit every spec of one kind (return            *)
(* undefined), change the kind Deployment to Namespace, give a name to a   *)
(* spec whose metadata has none.  Like the transform of main they read     *)
(* s?.kind and s.metadata?.name, so a null spec passes through.            *)
(***************************************************************************)
TransformPool ==
    { [op |-> "undefined", kind |-> Undefined],
      [op |-> "omit", kind |-> K_Namespace],
      [op |-> "omit", kind |-> K_Deployment],
      [op |-> "rekind", kind |-> K_Deployment],
      [op |-> "name", kind |-> K_Deployment] }

\* transform(s), with args.transform || (i => i)
ApplyTransform(t, s) ==
    IF t.op = "undefined" THEN s
    ELSE IF t.op = "omit"
         THEN IF OptKind(s) = t.kind THEN UndefinedSpec ELSE s
    ELSE IF t.op = "rekind"
         THEN IF OptKind(s) = t.kind
              THEN [s EXCEPT !.kind = K_Namespace, !.body = "transformed"]
              ELSE s
    ELSE IF s.tag = "object" /\ s.metadata.tag = "object" /\ ~Truthy(s.metadata.name)
         THEN [s EXCEPT !.metadata.name = S_w, !.body = "transformed"]
         ELSE s

\* the predicate of the first filter; the second filter is its negation
IsFoundational(s) ==
    OptKind(s) = K_CustomResourceDefinition \/ OptKind(s) = K_Namespace

\* positions of an array, in order, whose element satisfies the predicate of
\* the first filter (want = TRUE) or of the second (want = FALSE)
RECURSIVE FilterFrom(_, _, _)
FilterFrom(sp, want, k) ==
    IF k > Len(sp) THEN <<>>
    ELSE IF IsFoundational(sp[k]) = want
         THEN <<[src |-> k, spec |-> sp[k]]>> \o FilterFrom(sp, want, k + 1)
         ELSE FilterFrom(sp, want, k + 1)

\* mutant: the two filter predicates are exchanged
FilterSpecs_Swapped(sp, want) == FilterFrom(sp, ~want, 1)

\* mutant: the second filter keeps every spec
FilterSpecs_RestAll(sp, want) ==
    IF want THEN FilterFrom(sp, TRUE, 1)
    ELSE [k \in 1..Len(sp) |-> [src |-> k, spec |-> sp[k]]]

FilterSpecs(sp, want) == FilterFrom(sp, want, 1)

\* mutant: the results of map(createSpecResource) are not filtered
FilterCreated_KeepAll(cr) == [k \in 1..Len(cr) |-> cr[k].res]

\* .filter(r => !!r) on the results of map(createSpecResource)
RECURSIVE FilterCreated(_)
FilterCreated(cr) ==
    IF Len(cr) = 0 THEN <<>>
    ELSE IF cr[1].res # 0
         THEN <<cr[1].res>> \o FilterCreated(Tail(cr))
         ELSE FilterCreated(Tail(cr))

\* mutant: opts is the copy of args.options and first is never added
DependentOptions_NoFirst(o, fst) == o

\* mutant: opts.dependsOn = first without the test of first.length
DependentOptions_Unguarded(o, fst) ==
    [o EXCEPT !.hasDependsOn = TRUE, !.dependsOn = fst]

\* const opts = { ...args.options }; if (first.length > 0) opts.dependsOn = first
DependentOptions(o, fst) ==
    IF Len(fst) > 0
    THEN [o EXCEPT !.hasDependsOn = TRUE, !.dependsOn = fst]
    ELSE o

\* mutant: return [...rest, ...first]
ReturnValue_RestFirst(fst, rst) == rst \o fst

\* return [...first, ...rest]
ReturnValue(fst, rst) == fst \o rst

\* mutant: the declarations of the call are withdrawn when a constructor
\* throws
RegisteredAfterThrow_Undo(reg, b) == SubSeq(reg, 1, b)

\* the engine's list after a constructor threw: resourcesFromSpecs has no
\* catch or finally, the declarations made so far stay
RegisteredAfterThrow(reg, b) == reg

\* mutant: const opts = args.options, so the assignment to opts.dependsOn
\* writes the caller's object
CallerOptionsAfter_Aliased(o, fst) ==
    IF Len(fst) > 0
    THEN [o EXCEPT !.hasDependsOn = TRUE, !.dependsOn = fst]
    ELSE o

\* args.options after those two statements: the spread copied it
CallerOptionsAfter(o, fst) == o

\* --------------------------------------------------- the call as a function

\* .map(transform) on a filtered array
MapTransform(w, t) ==
    [k \in 1..Len(w) |-> [src |-> w[k].src, spec |-> ApplyTransform(t, w[k].spec)]]

\* .map(s => createSpecResource(s, o)) on a transformed array when the
\* engine accepts every declaration: the engine's list afterwards and the
\* results
RECURSIVE DeclareAll(_, _, _)
DeclareAll(w, o, reg) ==
    IF Len(w) = 0 THEN [registered |-> reg, created |-> <<>>]
    ELSE LET r == createSpecResource(w[1].spec, o)
             made == r.tag = "resource"
             then == DeclareAll(Tail(w), o, IF made THEN Append(reg, r) ELSE reg)
         IN  [registered |-> then.registered,
              created |-> <<[src |-> w[1].src,
                             res |-> IF made THEN Len(reg) + 1 ELSE 0]>>
                          \o then.created]

\* resourcesFromSpecs({options: o, specs: sp, transform: t}) when the engine
\* holds reg and accepts every declaration: the engine's list afterwards and
\* the array returned
resourcesFromSpecsResult(sp, t, o, reg) ==
    LET d1 == DeclareAll(MapTransform(FilterSpecs(sp, TRUE), t), o, reg)
        fst == FilterCreated(d1.created)
        d2 == DeclareAll(MapTransform(FilterSpecs(sp, FALSE), t),
                         DependentOptions(o, fst), d1.registered)
    IN  [registered |-> d2.registered,
         returned |-> ReturnValue(fst, FilterCreated(d2.created))]

\* ------------------------------------------------------------------- state

VARIABLES
    specs,       \* args.specs of the current call
    transform,   \* args.transform of the current call
    options,     \* args.options, the caller's object, reused by every call
    pc,          \* where the call is
    work,        \* the array the current chain maps over, with each
                 \* element's position in args.specs
    i,           \* next position of work the current map visits
    created,     \* results of map(createSpecResource) so far: a handle, or
                 \* 0 for undefined
    first,       \* the constant first
    opts,        \* the constant opts
    returned,    \* the array the call resolved with
    thrown,      \* whether the call rejected with an engine error
    registered,  \* the provisioning engine's list of declared resources
    log,         \* history: the transform invocations (with their result),
                 \* the createSpecResource invocations (with their
                 \* argument) and the building of opts, in order
    base,        \* history: Len(registered) when the call began
    calls,       \* calls begun
    uSpec,       \* createSpecResource alone: its spec argument
    uOut,        \* createSpecResource alone: what it did
    uPc,         \* createSpecResource alone: whether it has run
    role,        \* simpleRoleName alone: its argument
    roleName,    \* simpleRoleName alone: what it returned
    rPc          \* simpleRoleName alone: whether it has run

callVars ==
    <<specs, transform, options, pc, work, i, created, first, opts, returned,
      thrown, registered, log, base, calls>>

roleVars == <<role, roleName, rPc>>

unitVars == <<uSpec, uOut, uPc, role, roleName, rPc>>

vars ==
    <<specs, transform, options, pc, work, i, created, first, opts, returned,
      thrown, registered, log, base, calls, uSpec, uOut, uPc, role, roleName,
      rPc>>

CallIdle ==
    /\ specs = <<>>
    /\ transform = [op |-> "undefined", kind |-> Undefined]
    /\ pc = "idle"
    /\ work = <<>>
    /\ i = 1
    /\ created = <<>>
    /\ first = <<>>
    /\ opts = NoOptions
    /\ returned = <<>>
    /\ thrown = FALSE
    /\ registered = Preregistered
    /\ log = <<>>
    /\ base = Len(Preregistered)
    /\ calls = 0

RoleIdle ==
    /\ role = <<>>
    /\ roleName = <<>>
    /\ rPc = "idle"

UnitIdle ==
    /\ uSpec = UndefinedSpec
    /\ uOut = NoResource
    /\ uPc = "idle"
    /\ RoleIdle

Init ==
    /\ options \in OptionsPool
    /\ CallIdle
    /\ UnitIdle

\* the state in which a call begins: the first filter has run
Begin(sp, t) ==
    /\ specs' = sp
    /\ transform' = t
    /\ work' = FilterSpecs(sp, TRUE)
    /\ pc' = "first.transform"
    /\ i' = 1
    /\ created' = <<>>
    /\ first' = <<>>
    /\ opts' = NoOptions
    /\ returned' = <<>>
    /\ thrown' = FALSE
    /\ log' = <<>>
    /\ base' = Len(registered)
    /\ calls' = calls + 1
    /\ UNCHANGED <<options, registered>>
    /\ UNCHANGED unitVars

\* resourcesFromSpecs(args) is called, as main calls it
Call ==
    /\ pc = "idle"
    /\ \E sp \in SpecSeqs, t \in TransformPool : Begin(sp, t)

\* a caller that kept its options object calls again after a call ended
CallAgain ==
    /\ pc \in {"done", "failed"}
    /\ calls < MaxCalls
    /\ \E sp \in ReuseSeqs, t \in TransformPool : Begin(sp, t)

\* .map(transform) visits one element
TransformNext ==
    /\ pc \in {"first.transform", "rest.transform"}
    /\ i <= Len(work)
    /\ work' = [work EXCEPT ![i].spec = ApplyTransform(transform, work[i].spec)]
    /\ log' = Append(log, [op |-> "transform", src |-> work[i].src,
                            out |-> ApplyTransform(transform, work[i].spec)])
    /\ i' = i + 1
    /\ UNCHANGED <<specs, transform, options, pc, created, first, opts,
                   returned, thrown, registered, base, calls>>
    /\ UNCHANGED unitVars

\* .map(transform) has visited every element: map(createSpecResource) begins
TransformEnd ==
    /\ pc \in {"first.transform", "rest.transform"}
    /\ i > Len(work)
    /\ pc' = IF pc = "first.transform" THEN "first.create" ELSE "rest.create"
    /\ i' = 1
    /\ UNCHANGED <<specs, transform, options, work, created, first, opts,
                   returned, thrown, registered, log, base, calls>>
    /\ UNCHANGED unitVars

\* the options the current map(createSpecResource) passes
CreateOptions == IF pc = "first.create" THEN options ELSE opts

\* createSpecResource returns undefined for the element
CreateSkip ==
    /\ pc \in {"first.create", "rest.create"}
    /\ i <= Len(work)
    /\ createSpecResource(work[i].spec, CreateOptions).tag = "undefined"
    /\ created' = Append(created, [src |-> work[i].src, res |-> 0])
    /\ log' = Append(log, [op |-> "skip", src |-> work[i].src,
                            out |-> work[i].spec])
    /\ i' = i + 1
    /\ UNCHANGED <<specs, transform, options, pc, work, first, opts, returned,
                   thrown, registered, base, calls>>
    /\ UNCHANGED unitVars

\* createSpecResource constructs the element's resource: the engine
\* registers it
CreateRegister ==
    /\ pc \in {"first.create", "rest.create"}
    /\ i <= Len(work)
    /\ LET r == createSpecResource(work[i].spec, CreateOptions)
       IN  /\ r.tag = "resource"
           /\ registered' = Append(registered, r)
    /\ created' = Append(created, [src |-> work[i].src, res |-> Len(registered) + 1])
    /\ log' = Append(log, [op |-> "declare", src |-> work[i].src,
                            out |-> work[i].spec])
    /\ i' = i + 1
    /\ UNCHANGED <<specs, transform, options, pc, work, first, opts, returned,
                   thrown, base, calls>>
    /\ UNCHANGED unitVars

\* the constructor throws: nothing in resourcesFromSpecs catches it
CreateThrow ==
    /\ pc \in {"first.create", "rest.create"}
    /\ i <= Len(work)
    /\ createSpecResource(work[i].spec, CreateOptions).tag = "resource"
    /\ pc' = "failed"
    /\ thrown' = TRUE
    /\ registered' = RegisteredAfterThrow(registered, base)
    /\ log' = Append(log, [op |-> "throw", src |-> work[i].src,
                            out |-> work[i].spec])
    /\ UNCHANGED <<specs, transform, options, work, i, created, first, opts,
                   returned, base, calls>>
    /\ UNCHANGED unitVars

\* first is complete: opts is built and the second filter runs
FirstEnd ==
    /\ pc = "first.create"
    /\ i > Len(work)
    /\ first' = FilterCreated(created)
    /\ opts' = DependentOptions(options, FilterCreated(created))
    /\ options' = CallerOptionsAfter(options, FilterCreated(created))
    /\ work' = FilterSpecs(specs, FALSE)
    /\ created' = <<>>
    /\ i' = 1
    /\ pc' = "rest.transform"
    /\ log' = Append(log, [op |-> "opts", src |-> 0, out |-> UndefinedSpec])
    /\ UNCHANGED <<specs, transform, returned, thrown, registered, base, calls>>
    /\ UNCHANGED unitVars

\* rest is complete: return [...first, ...rest]
RestEnd ==
    /\ pc = "rest.create"
    /\ i > Len(work)
    /\ returned' = ReturnValue(first, FilterCreated(created))
    /\ pc' = "done"
    /\ UNCHANGED <<specs, transform, options, work, i, created, first, opts,
                   thrown, registered, log, base, calls>>
    /\ UNCHANGED unitVars

Next ==
    \/ Call
    \/ TransformNext
    \/ TransformEnd
    \/ CreateSkip
    \/ CreateRegister
    \/ CreateThrow
    \/ FirstEnd
    \/ RestEnd

Spec == Init /\ [][Next]_vars

\* one caller, several calls with the same options object
NextReuse == Next \/ CallAgain

SpecReuse == Init /\ [][NextReuse]_vars

\* ------------------------------------------------- createSpecResource alone

UnitKinds ==
    { K_ConfigMap, K_Namespace, K_Secret, K_Service, K_ServiceAccount,
      K_DaemonSet, K_Deployment, K_StatefulSet, K_Job, K_CronJob,
      K_PodDisruptionBudget, K_PodSecurityPolicy, K_NetworkPolicy, K_Ingress,
      K_ClusterRole, K_ClusterRoleBinding, K_Role, K_RoleBinding,
      K_MutatingWebhookConfiguration, K_ValidatingWebhookConfiguration,
      K_CustomResourceDefinition,
      K_Widget, K_namespace_lc, K_NAMESPACE_uc, K_configmap_lc,
      <<>>, Undefined }

UnitApiVersions ==
    { AV_admission_v1beta1, AV_admission_v1, AV_apiextensions_v1beta1,
      AV_apiextensions_v1, AV_v1, Undefined }

UnitNames == { S_web, S_ns1, <<>>, Undefined }

UnitNamespaces == { S_ns1, S_ns2, <<>>, Undefined }

UnitMetadata ==
    {NoMetadata} \cup { Metadata(n, ns) : n \in UnitNames, ns \in UnitNamespaces }

\* the spec arguments createSpecResource is applied to
UnitPool ==
    {NullSpec, UndefinedSpec}
    \cup { SpecObject(k, av, m) : k \in UnitKinds, av \in UnitApiVersions, m \in UnitMetadata }

InitUnit ==
    /\ options = MainOptions
    /\ CallIdle
    /\ uSpec \in UnitPool
    /\ uOut = NoResource
    /\ uPc = "idle"
    /\ RoleIdle

\* createSpecResource(uSpec, options) runs and the engine accepts what it
\* constructs
UnitCreate ==
    /\ uPc = "idle"
    /\ uOut' = createSpecResource(uSpec, options)
    /\ uPc' = "done"
    /\ UNCHANGED uSpec
    /\ UNCHANGED roleVars
    /\ UNCHANGED callVars

NextUnit == UnitCreate

SpecUnit == InitUnit /\ [][NextUnit]_vars

\* ============================================================== properties

Range(f) == { f[k] : k \in DOMAIN f }

\* the handles of the resources the current call has declared
ThisCall == (base + 1)..Len(registered)

\* the declarations of the current call, in order
Declarations == SelectSeq(log, LAMBDA e : e.op = "declare")

\* the position in args.specs of the spec a handle of the current call was
\* declared for
SrcOf(h) == Declarations[h - base].src

\* the handle's spec is in the first filter's output (tier 1)
InputFoundational(h) == IsFoundational(specs[SrcOf(h)])

\* ---------------------------------------------------------------------- C1
\* C1: every tier-2 spec is declared under the caller's options augmented
\* with the tier-1 handles: its dependency set is the caller-supplied
\* dependency set plus every tier-1 handle produced, every other option is
\* the caller's, and with no tier-1 handle the options are the caller's
\* exactly.
C1_TierTwoOptionsAugmented ==
    \A h \in ThisCall :
        ~InputFoundational(h) =>
            LET o == registered[h].opts
            IN  /\ o.provider = options.provider
                /\ o.customTimeouts = options.customTimeouts
                /\ Range(DependsOn(o)) = Range(DependsOn(options)) \cup Range(first)
                /\ (first = <<>> => o = options)

\* ---------------------------------------------------------------------- C2
\* C2: for input specs A of kind CustomResourceDefinition or Namespace and B
\* of any other kind, the declaration of A carries no dependency on B's
\* handle, and the declaration of B carries a dependency on every handle
\* produced for such an A in the same call.
C2_TierOrdering ==
    \A a \in ThisCall, b \in ThisCall :
        (InputFoundational(a) /\ ~InputFoundational(b)) =>
            /\ b \notin Range(DependsOn(registered[a].opts))
            /\ a \in Range(DependsOn(registered[b].opts))

\* a call returned handles of a foundational and of another spec, the
\* foundational one later in the input
C2_Witness ==
    /\ pc = "done"
    /\ \E a \in Range(returned), b \in Range(returned) :
          /\ InputFoundational(a)
          /\ ~InputFoundational(b)
          /\ SrcOf(b) < SrcOf(a)

\* ---------------------------------------------------------------------- C3
\* C3: the returned sequence is every tier-1 handle, in the order of their
\* specs in the input, followed by every tier-2 handle, in the order of
\* their specs in the input; no handle of a non-foundational spec precedes a
\* handle of a foundational spec.
C3_ReturnOrder ==
    pc = "done" =>
        /\ Range(returned) = ThisCall
        /\ Len(returned) = Cardinality(ThisCall)
        /\ \A j \in DOMAIN returned, k \in DOMAIN returned :
              j < k =>
                  /\ ~(~InputFoundational(returned[j]) /\ InputFoundational(returned[k]))
                  /\ (InputFoundational(returned[j]) = InputFoundational(returned[k])
                         => SrcOf(returned[j]) < SrcOf(returned[k]))

\* a call returned two tier-1 handles and a tier-2 handle whose spec stood
\* between their specs in the input
C3_Witness ==
    /\ pc = "done"
    /\ Len(returned) = 3
    /\ InputFoundational(returned[1])
    /\ InputFoundational(returned[2])
    /\ ~InputFoundational(returned[3])
    /\ SrcOf(returned[1]) < SrcOf(returned[3])
    /\ SrcOf(returned[3]) < SrcOf(returned[2])

\* ---------------------------------------------------------------------- C4
\* the invocations of createSpecResource in the log
Invocations == { j \in DOMAIN log : log[j].op \in {"skip", "declare", "throw"} }

\* a spec lacks kind or metadata.name: it is null or undefined, has no or an
\* empty kind, has no metadata block, or has no or an empty name
Lacks(s) ==
    \/ s.tag # "object"
    \/ s.kind = Undefined
    \/ s.kind = <<>>
    \/ s.metadata.tag # "object"
    \/ s.metadata.name = Undefined
    \/ s.metadata.name = <<>>

C5_HandlePerNamedInputSpec ==
    (pc = "done") =>
        /\ \A h \in Range(returned) : h \in ThisCall /\ ~Lacks(specs[SrcOf(h)])
        /\ \A j \in DOMAIN returned, k \in DOMAIN returned :
              j # k => (returned[j] # returned[k]
                        /\ SrcOf(returned[j]) # SrcOf(returned[k]))
        /\ Len(registered) - base = Len(returned)

\* C5 as amended: every returned handle corresponds to exactly one input
\* spec whose transform result (the input spec itself when no transform is
\* given) had both kind and metadata.name present; one creation was
\* registered for it, with that result as its arguments; the registered
\* creations are as many as the returned handles, and no input spec yields
\* more than one handle.
C5_HandlePerNamedSpec ==
    (pc = "done") =>
        /\ \A h \in Range(returned) :
              /\ h \in ThisCall
              /\ ~Lacks(registered[h].args)
              /\ \E j \in DOMAIN log :
                    /\ log[j].op = "transform"
                    /\ log[j].src = SrcOf(h)
                    /\ log[j].out = registered[h].args
        /\ \A j \in DOMAIN returned, k \in DOMAIN returned :
              j # k => (returned[j] # returned[k]
                        /\ SrcOf(returned[j]) # SrcOf(returned[k]))
        /\ Len(registered) - base = Len(returned)

\* a call returned two handles, one of them for an input spec without a
\* name to which the transform gave one
C5_Witness ==
    /\ pc = "done"
    /\ Len(returned) = 2
    /\ \E h \in Range(returned) :
          Lacks(specs[SrcOf(h)]) /\ ~Lacks(registered[h].args)

\* ---------------------------------------------------------------------- C6
\* the positions of args.specs for which the transform returned undefined
Omitted ==
    { k \in DOMAIN specs :
        \E j \in DOMAIN log :
            log[j].op = "transform" /\ log[j].src = k /\ log[j].out.tag = "undefined" }

\* a sequence without the elements at the given positions
RECURSIVE Without(_, _, _)
Without(sq, drop, k) ==
    IF k > Len(sq) THEN <<>>
    ELSE IF k \in drop THEN Without(sq, drop, k + 1)
    ELSE <<sq[k]>> \o Without(sq, drop, k + 1)

\* C6: a spec for which the transform returns undefined gets no resource, no
\* handle and no error, and what the call registers and returns for the
\* other specs (handles, identifiers, types, options and dependencies, tier
\* order) is what it registers and returns for the input without the
\* omitted specs.
C6_OmissionIsAbsence ==
    /\ \A j \in Invocations : log[j].out.tag = "undefined" => log[j].op = "skip"
    /\ \A h \in ThisCall : SrcOf(h) \notin Omitted
    /\ (pc = "done") =>
          LET r == resourcesFromSpecsResult(Without(specs, Omitted, 1), transform,
                                            options, SubSeq(registered, 1, base))
          IN  /\ r.registered = registered
              /\ r.returned = returned

\* a call returned the handle of a tier-2 spec, declared under the caller's
\* options, while the transform omitted the only foundational spec
C6_Witness ==
    /\ pc = "done"
    /\ Len(returned) = 1
    /\ \E k \in Omitted : IsFoundational(specs[k])
    /\ ~InputFoundational(returned[1])
    /\ registered[returned[1]].opts = options

\* ---------------------------------------------------------------------- C7
Id_namespace_ns1 ==
    <<"k", "8", "s", "/", "n", "a", "m", "e", "s", "p", "a", "c", "e", "/", "n", "s", "1">>
Id_deployment_ns1_web ==
    <<"k", "8", "s", "/", "d", "e", "p", "l", "o", "y", "m", "e", "n", "t", "/", "n", "s", "1", "/", "w", "e", "b">>
Id_namespace_web ==
    <<"k", "8", "s", "/", "n", "a", "m", "e", "s", "p", "a", "c", "e", "/", "w", "e", "b">>

\* the spec carries a namespace (a non-empty one)
CarriesNamespace(s) ==
    s.metadata.namespace # Undefined /\ s.metadata.namespace # <<>>

\* "k8s/" + lower-cased kind + ("/" + namespace, if withNamespace) + "/" + name
IdentifierOf(s, withNamespace) ==
    S_k8s \o <<"/">> \o toLowerCase(s.kind)
          \o (IF withNamespace THEN <<"/">> \o s.metadata.namespace ELSE <<>>)
          \o <<"/">> \o s.metadata.name

\* the two examples of the claim
C7_Examples ==
    /\ (uSpec.kind = K_Namespace /\ uSpec.metadata.name = S_ns1)
          => uOut.name = Id_namespace_ns1
    /\ (uSpec.kind = K_Deployment /\ uSpec.metadata.name = S_web
           /\ uSpec.metadata.namespace = S_ns1)
          => uOut.name = Id_deployment_ns1_web

\* C7 as stated: for a spec with kind and metadata.name present the
\* identifier is "k8s/" + lower-cased kind + ("/" + namespace, only when the
\* spec carries a namespace and its kind is not the Namespace kind) + "/" +
\* name.
C7_IdentifierByKind ==
    (uPc = "done" /\ ~Lacks(uSpec)) =>
        /\ uOut.name = IdentifierOf(uSpec, CarriesNamespace(uSpec)
                                           /\ uSpec.kind # K_Namespace)
        /\ C7_Examples

\* C7 as amended: for a spec with kind and metadata.name present the
\* identifier is "k8s/" + lower-cased kind + ("/" + namespace, only when the
\* spec carries a non-empty namespace and its lower-cased kind is not
\* "namespace") + "/" + name: a spec of kind Namespace, and also one whose
\* kind is another spelling of it such as "NAMESPACE" or "namespace", never
\* gets a namespace segment.
C7_IdentifierByLowerCasedKind ==
    (uPc = "done" /\ ~Lacks(uSpec)) =>
        /\ uOut.name = IdentifierOf(uSpec, CarriesNamespace(uSpec)
                                           /\ toLowerCase(uSpec.kind) # S_namespace)
        /\ C7_Examples

\* createSpecResource named a spec of kind "NAMESPACE" that carries a
\* namespace
C7_Witness ==
    /\ uPc = "done"
    /\ uSpec.kind = K_NAMESPACE_uc
    /\ uSpec.metadata.namespace = S_ns1
    /\ uOut.name = Id_namespace_web

\* ---------------------------------------------------------------------- C8
\* two values of metadata.namespace are different namespaces (an empty
\* namespace counts as none)
DifferentNamespace(a, b) ==
    /\ a # b
    /\ (a \in {Undefined, <<>>} => b \notin {Undefined, <<>>})

\* the spec with another metadata.namespace
WithNamespace(s, ns) == [s EXCEPT !.metadata.namespace = ns]

\* C8 as stated: two specs (with kind and metadata.name present) that are
\* identical except for metadata.namespace, one of them perhaps without
\* one, and whose kind is not the Namespace kind, have different
\* identifiers.
C8_NamespaceChangesIdentifier ==
    (uPc = "done" /\ ~Lacks(uSpec) /\ uSpec.kind # K_Namespace) =>
        \A ns \in UnitNamespaces :
            DifferentNamespace(ns, uSpec.metadata.namespace) =>
                specResourceName(WithNamespace(uSpec, ns)) # uOut.name

\* C8 as amended: two specs with kind and metadata.name present that are
\* identical except for metadata.namespace (one of them perhaps without one,
\* an empty namespace counting as none) and whose lower-cased kind is not
\* "namespace" have different identifiers.
C8_NamespaceChangesIdentifierLowerCased ==
    (uPc = "done" /\ ~Lacks(uSpec) /\ toLowerCase(uSpec.kind) # S_namespace) =>
        \A ns \in UnitNamespaces :
            DifferentNamespace(ns, uSpec.metadata.namespace) =>
                specResourceName(WithNamespace(uSpec, ns)) # uOut.name

\* createSpecResource named the Deployment web of namespace ns1, and the
\* same Deployment of namespace ns2 or of no namespace is named otherwise
C8_Witness ==
    /\ uPc = "done"
    /\ uSpec.kind = K_Deployment
    /\ uSpec.metadata.namespace = S_ns1
    /\ uOut.name = Id_deployment_ns1_web
    /\ specResourceName(WithNamespace(uSpec, S_ns2)) # uOut.name
    /\ specResourceName(WithNamespace(uSpec, Undefined)) # uOut.name

\* ---------------------------------------------------------------------- C9
\* the fixed mapping: kind, resource family, constructor
FixedMapping ==
    { <<K_ConfigMap, "core", "core.v1.ConfigMap">>,
      <<K_Namespace, "core", "core.v1.Namespace">>,
      <<K_Secret, "core", "core.v1.Secret">>,
      <<K_Service, "core", "core.v1.Service">>,
      <<K_ServiceAccount, "core", "core.v1.ServiceAccount">>,
      <<K_DaemonSet, "workload", "apps.v1.DaemonSet">>,
      <<K_Deployment, "workload", "apps.v1.Deployment">>,
      <<K_StatefulSet, "workload", "apps.v1.StatefulSet">>,
      <<K_Job, "batch", "batch.v1.Job">>,
      <<K_CronJob, "batch", "batch.v1beta1.CronJob">>,
      <<K_PodDisruptionBudget, "policy/networking", "policy.v1beta1.PodDisruptionBudget">>,
      <<K_PodSecurityPolicy, "policy/networking", "policy.v1beta1.PodSecurityPolicy">>,
      <<K_NetworkPolicy, "policy/networking", "networking.v1.NetworkPolicy">>,
      <<K_Ingress, "policy/networking", "networking.v1beta1.Ingress">>,
      <<K_ClusterRole, "access-control", "rbac.v1.ClusterRole">>,
      <<K_ClusterRoleBinding, "access-control", "rbac.v1.ClusterRoleBinding">>,
      <<K_Role, "access-control", "rbac.v1.Role">>,
      <<K_RoleBinding, "access-control", "rbac.v1.RoleBinding">> }

\* the kinds with two revisions: kind, the v1beta1 apiVersion tag of its
\* group, the v1beta1 constructor, the v1 constructor
TwoRevisionMapping ==
    { <<K_MutatingWebhookConfiguration, AV_admission_v1beta1,
        "admissionregistration.v1beta1.MutatingWebhookConfiguration",
        "admissionregistration.v1.MutatingWebhookConfiguration">>,
      <<K_ValidatingWebhookConfiguration, AV_admission_v1beta1,
        "admissionregistration.v1beta1.ValidatingWebhookConfiguration",
        "admissionregistration.v1.ValidatingWebhookConfiguration">>,
      <<K_CustomResourceDefinition, AV_apiextensions_v1beta1,
        "apiextensions.v1beta1.CustomResourceDefinition",
        "apiextensions.v1.CustomResourceDefinition">> }

MappedKinds ==
    { m[1] : m \in FixedMapping } \cup { m[1] : m \in TwoRevisionMapping }

\* C9: for a spec with kind and metadata.name present createSpecResource
\* constructs one resource, of the constructor the fixed mapping gives its
\* kind; for the three kinds with two revisions the v1beta1 constructor
\* exactly when apiVersion is the group's v1beta1 tag and the v1 constructor
\* for any other or a missing apiVersion; for a kind that is not in the
\* mapping the generic custom resource.
C9_Dispatch ==
    (uPc = "done" /\ ~Lacks(uSpec)) =>
        /\ uOut.tag = "resource"
        /\ uOut.args = uSpec
        /\ \A m \in FixedMapping : uSpec.kind = m[1] => uOut.type = m[3]
        /\ \A m \in TwoRevisionMapping :
              uSpec.kind = m[1] =>
                  /\ (uSpec.apiVersion = m[2] => uOut.type = m[3])
                  /\ (uSpec.apiVersion # m[2] => uOut.type = m[4])
        /\ uSpec.kind \notin MappedKinds => uOut.type = "apiextensions.CustomResource"

\* createSpecResource constructed the v1 CustomResourceDefinition for a spec
\* without apiVersion
C9_Witness ==
    /\ uPc = "done"
    /\ uSpec.kind = K_CustomResourceDefinition
    /\ uSpec.apiVersion = Undefined
    /\ uOut.type = "apiextensions.v1.CustomResourceDefinition"

\* --------------------------------------------------------------------- C10
\* the transform invocations for the spec at a position of args.specs
TransformsOf(k) ==
    { j \in DOMAIN log : log[j].op = "transform" /\ log[j].src = k }

\* C10: in one call the transform is invoked exactly once for every input
\* spec (each spec is in exactly one of the two tiers), for each spec before
\* createSpecResource is invoked for it, and the resource is built from the
\* transform's result, not from the original spec.
C10_TransformOnceBeforeDeclare ==
    /\ \A k \in DOMAIN specs : Cardinality(TransformsOf(k)) <= 1
    /\ (pc = "done") =>
          \A k \in DOMAIN specs :
              /\ Cardinality(TransformsOf(k)) = 1
              /\ Cardinality({ j \in Invocations : log[j].src = k }) = 1
    /\ \A j \in Invocations :
          \E t \in TransformsOf(log[j].src) : t < j /\ log[t].out = log[j].out
    /\ \A h \in ThisCall :
          \E t \in TransformsOf(SrcOf(h)) : registered[h].args = log[t].out

\* a call returned after declaring a resource from a spec the transform
\* changed, of a tier-1 and of a tier-2 spec
C10_Witness ==
    /\ pc = "done"
    /\ \E h \in ThisCall : registered[h].args # specs[SrcOf(h)]
    /\ \E h \in ThisCall : InputFoundational(h)
    /\ \E h \in ThisCall : ~InputFoundational(h)

\* --------------------------------------------------------------------- C11
\* the engine errors of the call
Throws == { j \in DOMAIN log : log[j].op = "throw" }

\* C11: when the engine raises an error while a resource is declared, the
\* call ends with that error: nothing catches or retries it, no handle
\* sequence is returned, no later spec is transformed or declared, and the
\* declarations registered before it (all of tier 1 when a tier-2
\* declaration fails) stay registered.
C11_EngineErrorPropagates ==
    /\ thrown <=> pc = "failed"
    /\ Throws # {} <=> pc = "failed"
    /\ (pc = "failed") =>
          /\ returned = <<>>
          /\ Throws = {Len(log)}
          /\ Len(registered) = base + Len(Declarations)
          /\ \A k \in DOMAIN Declarations :
                /\ registered[base + k].tag = "resource"
                /\ registered[base + k].args = Declarations[k].out
          /\ SubSeq(registered, 1, Len(Preregistered)) = Preregistered
          /\ \A h \in Range(first) : h \in ThisCall

\* the engine failed a tier-2 declaration after two tier-1 declarations,
\* which are still registered
C11_Witness ==
    /\ pc = "failed"
    /\ Len(first) = 2
    /\ ~IsFoundational(specs[log[Len(log)].src])
    /\ Len(registered) = base + 2
    /\ \A h \in Range(first) : registered[h].opts = options

\* --------------------------------------------------------------------- C12
\* the log event is about a spec of tier 1 (a foundational input spec)
TierOneEvent(j) == IsFoundational(specs[log[j].src])

\* C12: within one call the declarations are issued one after another in a
\* single pass: every tier-1 declaration is registered before any tier-2
\* declaration, and the call returns only after every tier-2 spec has been
\* declared or skipped.
C12_SinglePass ==
    /\ \A j \in Invocations, k \in Invocations :
          (TierOneEvent(j) /\ ~TierOneEvent(k)) => j < k
    /\ \A k \in DOMAIN Declarations :
          /\ base + k \in ThisCall
          /\ registered[base + k].args = Declarations[k].out
    /\ Len(registered) = base + Len(Declarations)
    /\ (pc # "done") => returned = <<>>
    /\ (pc = "done") =>
          \A k \in DOMAIN specs :
              \E j \in Invocations :
                  log[j].src = k /\ log[j].op \in {"skip", "declare"}

\* a call returned one tier-1 and two tier-2 handles, the tier-1 spec last
\* in the input
C12_Witness ==
    /\ pc = "done"
    /\ Len(specs) = 3
    /\ IsFoundational(specs[3])
    /\ Len(returned) = 3
    /\ SrcOf(returned[1]) = 3

\* --------------------------------------------------------------------- C13
\* the handles of every resource declared by a call of resourcesFromSpecs
AllCallHandles == (Len(Preregistered) + 1)..Len(registered)

\* C13: resourcesFromSpecs keeps no state between calls and modifies neither
\* the caller's options nor the input sequence: after any calls that reuse
\* one options value that value (its dependency list included) is what the
\* caller made it, the tier-1 specs of a later call are declared under it
\* and never under the dependencies added for the tier 2 of an earlier
\* call, and what a call registers and returns is determined by its
\* arguments and the engine's list when it began.
C13_NoStateAcrossCalls ==
    /\ options \in OptionsPool
    /\ Range(DependsOn(options)) \cap AllCallHandles = {}
    /\ \A k \in DOMAIN specs : specs[k] \in SpecPool
    /\ \A h \in ThisCall :
          InputFoundational(h) =>
              /\ registered[h].opts = options
              /\ Range(DependsOn(registered[h].opts)) \cap AllCallHandles = {}
    /\ (pc = "done") =>
          LET r == resourcesFromSpecsResult(specs, transform, options,
                                            SubSeq(registered, 1, base))
          IN  r.registered = registered /\ r.returned = returned

\* a second call with the same options declared a tier-1 resource after the
\* first call had declared a tier-2 resource under added dependencies
C13_Witness ==
    /\ calls = 2
    /\ pc = "done"
    /\ options = MainOptions
    /\ \E h \in AllCallHandles \ ThisCall :
          Range(DependsOn(registered[h].opts)) \cap AllCallHandles # {}
    /\ \E h \in ThisCall : InputFoundational(h)

\* --------------------------------------------------------- simpleRoleName alone

\* the roles main and workloadIdentity pass
R_logging_logWriter ==
    <<"r", "o", "l", "e", "s", "/", "l", "o", "g", "g", "i", "n", "g", ".", "l", "o", "g", "W", "r", "i", "t", "e", "r">>
R_monitoring_metricWriter ==
    <<"r", "o", "l", "e", "s", "/", "m", "o", "n", "i", "t", "o", "r", "i", "n", "g", ".", "m", "e", "t", "r", "i", "c", "W", "r", "i", "t", "e", "r">>
R_monitoring_viewer ==
    <<"r", "o", "l", "e", "s", "/", "m", "o", "n", "i", "t", "o", "r", "i", "n", "g", ".", "v", "i", "e", "w", "e", "r">>
R_dns_admin ==
    <<"r", "o", "l", "e", "s", "/", "d", "n", "s", ".", "a", "d", "m", "i", "n">>

MainRoles ==
    { R_logging_logWriter, R_monitoring_metricWriter, R_monitoring_viewer,
      R_dns_admin }

\* pieces other role strings are put together from
RoleParts ==
    { S_roles_slash,
      <<"R", "o", "l", "e", "s", "/">>,
      <<"d", "n", "s">>,
      <<".">>,
      <<"l", "o", "g", "W", "r", "i", "t", "e", "r">> }

RECURSIVE Concat(_)
Concat(parts) == IF Len(parts) = 0 THEN <<>> ELSE parts[1] \o Concat(Tail(parts))

\* the role arguments simpleRoleName is applied to
RolePool ==
    MainRoles
    \cup { Concat(ps) : ps \in UNION { [1..n -> RoleParts] : n \in 0..MaxRoleParts } }

InitRole ==
    /\ options = MainOptions
    /\ CallIdle
    /\ uSpec = UndefinedSpec
    /\ uOut = NoResource
    /\ uPc = "idle"
    /\ role \in RolePool
    /\ roleName = <<>>
    /\ rPc = "idle"

\* simpleRoleName(role) runs
SimpleRoleName ==
    /\ rPc = "idle"
    /\ roleName' = simpleRoleName(role)
    /\ rPc' = "done"
    /\ UNCHANGED <<role, uSpec, uOut, uPc>>
    /\ UNCHANGED callVars

NextRole == SimpleRoleName

SpecRole == InitRole /\ [][NextRole]_vars

\* --------------------------------------------------------------------- C14
R_dns_admin_simple ==
    <<"d", "n", "s", "-", "a", "d", "m", "i", "n">>

\* the string has no "." and no upper-case letter
NoDotNoUpperCase(s) ==
    \A k \in 1..Len(s) : s[k] # "." /\ s[k] \notin Range(UpperCaseLetters)

\* the role without its leading "roles/", if it has one
Remainder(r) ==
    IF Len(r) >= 6 /\ SubSeq(r, 1, 6) = S_roles_slash THEN SubSeq(r, 7, Len(r)) ELSE r

\* the result is the remainder with every "." replaced by "-" and every
\* letter lower-cased
IsSimpleNameOf(name, r) ==
    /\ Len(name) = Len(Remainder(r))
    /\ \A k \in 1..Len(name) :
          LET c == Remainder(r)[k]
          IN  /\ (c = "." => name[k] = "-")
              /\ (c \in Range(UpperCaseLetters) =>
                     \E n \in DOMAIN UpperCaseLetters :
                         c = UpperCaseLetters[n] /\ name[k] = LowerCaseLetters[n])
              /\ (c # "." /\ c \notin Range(UpperCaseLetters) => name[k] = c)

\* C14 as stated: simpleRoleName returns the role with "roles/" removed,
\* every "." replaced by "-" and all letters lower-cased, so the result
\* contains no ".", no upper-case letter and no leading "roles/".
C14_SimpleRoleNameNoLeadingRoles ==
    (rPc = "done") =>
        /\ IsSimpleNameOf(roleName, role)
        /\ NoDotNoUpperCase(roleName)
        /\ ~StartsWith(roleName, S_roles_slash)

\* C14 as amended: simpleRoleName returns the role with one leading,
\* lower-case "roles/" removed, every "." replaced by "-" and all letters
\* lower-cased, so the result contains no "." and no upper-case letter; it
\* begins with "roles/" exactly when the role, after that one removal,
\* still begins with "roles/" in some letter case (as in "roles/roles/x" or
\* "Roles/x").
C14_SimpleRoleName ==
    (rPc = "done") =>
        /\ IsSimpleNameOf(roleName, role)
        /\ NoDotNoUpperCase(roleName)
        /\ StartsWith(roleName, S_roles_slash)
              <=> (/\ Len(Remainder(role)) >= 6
                   /\ \A k \in 1..6 :
                         \/ Remainder(role)[k] = S_roles_slash[k]
                         \/ \E n \in DOMAIN UpperCaseLetters :
                               /\ Remainder(role)[k] = UpperCaseLetters[n]
                               /\ S_roles_slash[k] = LowerCaseLetters[n])

\* simpleRoleName named the role of the workload identities
C14_Witness ==
    /\ rPc = "done"
    /\ role = R_dns_admin
    /\ roleName = R_dns_admin_simple

\* --------------------------------------------------------------------- C15
\* the position in the log of the declaration that made a handle of the
\* current call
DeclarationOf(h) ==
    CHOOSE j \in DOMAIN log :
        /\ log[j].op = "declare"
        /\ Cardinality({ m \in 1..j : log[m].op = "declare" }) = h - base

\* the handle was declared by the second chain, after opts was built
DeclaredInTierTwo(h) ==
    \E m \in DOMAIN log : log[m].op = "opts" /\ m < DeclarationOf(h)

\* the resource is declared as a Namespace or a CustomResourceDefinition
DeclaredFoundational(h) ==
    registered[h].type \in { "core.v1.Namespace",
                             "apiextensions.v1beta1.CustomResourceDefinition",
                             "apiextensions.v1.CustomResourceDefinition" }

\* the declaration depends on no handle the same call produced
NoDependencyOnThisCall(h) ==
    Range(DependsOn(registered[h].opts)) \cap ThisCall = {}

\* C15 as stated: tier membership follows the kind of the resource actually
\* declared: for any transform every resource declared as a Namespace or
\* CustomResourceDefinition is declared in tier 1 under the caller's
\* options, with no dependency on a handle of the same call, and every
\* resource declared in tier 2 has a non-foundational kind.
C15_TierByDeclaredKind ==
    \A h \in ThisCall :
        /\ DeclaredFoundational(h) =>
              /\ ~DeclaredInTierTwo(h)
              /\ registered[h].opts = options
              /\ NoDependencyOnThisCall(h)
        /\ DeclaredInTierTwo(h) => ~DeclaredFoundational(h)

\* C15 as amended: tier membership follows the kind the spec has in the
\* input, before the transform: for any transform every resource whose
\* input spec is a Namespace or CustomResourceDefinition is declared in tier
\* 1 under the caller's options, with no dependency on a handle of the same
\* call, and every resource declared in tier 2 comes from an input spec of
\* another kind and is declared under opts, whatever kind the transform
\* gave it.
C15_TierByInputKind ==
    \A h \in ThisCall :
        /\ InputFoundational(h) =>
              /\ ~DeclaredInTierTwo(h)
              /\ registered[h].opts = options
              /\ NoDependencyOnThisCall(h)
        /\ DeclaredInTierTwo(h) =>
              /\ ~InputFoundational(h)
              /\ registered[h].opts = opts

\* a Deployment that the transform turned into a Namespace was declared in
\* tier 2, as a Namespace that depends on a tier-1 handle of the call
C15_Witness ==
    \E h \in ThisCall :
        /\ specs[SrcOf(h)].kind = K_Deployment
        /\ registered[h].type = "core.v1.Namespace"
        /\ DeclaredInTierTwo(h)
        /\ ~NoDependencyOnThisCall(h)

\* --------------------------------------------------------------------- C16
\* the handles a declaration names in its dependsOn
Deps(h) == Range(DependsOn(registered[h].opts))

\* C16: every resource the call declares is ordered after every dependency
\* the caller supplied in args.options: a tier-1 resource carries the
\* caller's dependencies itself, and a tier-2 resource carries them itself
\* or depends on a tier-1 resource of the call that does.
C16_OrderedAfterCallerDependencies ==
    \A h \in ThisCall : \A d \in Range(DependsOn(options)) :
        IF DeclaredInTierTwo(h)
        THEN \/ d \in Deps(h)
             \/ \E x \in Deps(h) \cap ThisCall :
                   ~DeclaredInTierTwo(x) /\ d \in Deps(x)
        ELSE d \in Deps(h)

\* main's call has returned, and a tier-2 resource that does not name the
\* cluster-admin role binding or the ingress firewall itself depends on a
\* tier-1 resource that names both
C16_Witness ==
    /\ pc = "done"
    /\ options = MainOptions
    /\ \E h \in ThisCall :
          /\ DeclaredInTierTwo(h)
          /\ Deps(h) \cap {1, 2} = {}
          /\ \E x \in Deps(h) \cap ThisCall : {1, 2} \subseteq Deps(x)
====
